---------------------------- MODULE Spec2Model ----------------------------
(***************************************************************************)
(* A model of setuptools_download.py: the marker (predicate) engine, the   *)
(* manifest parser, the platform filter, the fetch-and-verify step and the *)
(* two commands (download, install) that a build runs one after the other. *)
(*                                                                         *)
(* A Python str is a sequence of one-character strings, so that `in`,      *)
(* split, strip, startswith, endswith and slicing are computed on the      *)
(* characters as Python computes them.  None is the record NoneV and a     *)
(* present value v is Some(v), so that '' and None stay different.         *)
(***************************************************************************)
EXTENDS Integers, Sequences, FiniteSets, TLC

VARIABLES
    text,       \* Marker.parse: the argument s
    mres,       \* Marker.parse: its outcome (NotRun before the call)
    manifest,   \* _parse: the manifest text, as stray text plus sections of lines
    pres,       \* _parse: its outcome
    src,        \* _filter: the argument src (a tuple of File)
    env,        \* _filter: what _default_env() returns on this platform
    fres,       \* _filter: outcome of _filter(src)
    fres2,      \* _filter: outcome of _filter applied to the tuple fres holds
    fs,         \* the regular files on disk, dest -> contents or NoBytes
    dl,         \* _download: the record of the last call
    options,    \* the commands: download_data_files / download_scripts of setup.cfg
    umask,      \* the commands: the permission bits the process masks out
    pc,         \* the commands: how far the build has come
    cmd,        \* the attributes of the setuptools_download command
    icmd,       \* the attributes of the install_setuptools_download command
    todo,       \* setuptools_download.run: the (base, f) pairs still to download
    modes,      \* the permission bits of the files on disk, dest -> st_mode bits
    fetched,    \* the calls of _download made so far, in order
    copied,     \* the calls of shutil.copy made so far, in order
    raised      \* the error a command raised, NoError before

pipeVars == <<options, umask, pc, cmd, icmd, todo, modes, fetched, copied, raised>>

vars == <<text, mres, manifest, pres, src, env, fres, fres2, fs, dl,
          options, umask, pc, cmd, icmd, todo, modes, fetched, copied, raised>>

---------------------------------------------------------------------------
(* Python str and Optional *)

\* The characters of the model's strings, with their code points' order.
Ord(c) ==
    CASE c = "\t" -> 9   [] c = " " -> 32  [] c = "!" -> 33  [] c = "\"" -> 34
      [] c = "0" -> 48   [] c = "1" -> 49  [] c = "2" -> 50  [] c = "=" -> 61
      [] c = "A" -> 65   [] c = "B" -> 66  [] c = "_" -> 95
      [] c = "a" -> 97   [] c = "b" -> 98  [] c = "c" -> 99  [] c = "d" -> 100
      [] c = "e" -> 101  [] c = "f" -> 102 [] c = "g" -> 103 [] c = "h" -> 104
      [] c = "i" -> 105  [] c = "k" -> 107 [] c = "l" -> 108 [] c = "m" -> 109
      [] c = "n" -> 110  [] c = "o" -> 111 [] c = "p" -> 112 [] c = "r" -> 114
      [] c = "s" -> 115  [] c = "t" -> 116 [] c = "u" -> 117 [] c = "w" -> 119
      [] c = "x" -> 120  [] c = "y" -> 121 [] c = "z" -> 122
      [] OTHER -> 127

NoneV == [some |-> FALSE, val |-> <<>>]
Some(v) == [some |-> TRUE, val |-> v]

\* bool(x) of an Optional[str]: None and '' are falsy.
Truthy(o) == o.some /\ o.val # <<>>

IsSpace(c) == c \in {" ", "\t"}

\* s[i:i+len(sub)] == sub, for a 1-based i
MatchAt(s, i, sub) ==
    /\ i + Len(sub) - 1 <= Len(s)
    /\ \A j \in 1..Len(sub) : s[i + j - 1] = sub[j]

\* sub in s
Contains(s, sub) == \E i \in 1..(Len(s) - Len(sub) + 1) : MatchAt(s, i, sub)

\* s.find(sub), 1-based, 0 when absent
Find(s, sub) ==
    IF Contains(s, sub)
    THEN CHOOSE i \in 1..Len(s) :
            /\ MatchAt(s, i, sub)
            /\ \A j \in 1..(i - 1) : ~MatchAt(s, j, sub)
    ELSE 0

\* s.split(sep) for a non-empty sep
RECURSIVE Split(_, _)
Split(s, sep) ==
    LET i == Find(s, sep) IN
    IF i = 0 THEN <<s>>
    ELSE <<SubSeq(s, 1, i - 1)>> \o Split(SubSeq(s, i + Len(sep), Len(s)), sep)

\* s.split(sep, 1)
Split1(s, sep) ==
    LET i == Find(s, sep) IN
    IF i = 0 THEN <<s>>
    ELSE <<SubSeq(s, 1, i - 1), SubSeq(s, i + Len(sep), Len(s))>>

\* s.lstrip(), s.rstrip(), s.strip()
RECURSIVE LStrip(_)
LStrip(s) == IF s # <<>> /\ IsSpace(Head(s)) THEN LStrip(Tail(s)) ELSE s

RECURSIVE RStrip(_)
RStrip(s) ==
    IF s # <<>> /\ IsSpace(s[Len(s)]) THEN RStrip(SubSeq(s, 1, Len(s) - 1)) ELSE s

Strip(s) == RStrip(LStrip(s))

\* s.split(): the maximal runs of non-whitespace characters
RECURSIVE SplitWs(_)
SplitWs(s) ==
    LET t == LStrip(s) IN
    IF t = <<>> THEN <<>>
    ELSE LET ends == {i \in 1..Len(t) : IsSpace(t[i])}
             n == IF ends = {} THEN Len(t)
                  ELSE (CHOOSE i \in ends : \A j \in ends : i <= j) - 1
         IN <<SubSeq(t, 1, n)>> \o SplitWs(SubSeq(t, n + 1, Len(t)))

StartsWith(s, p) == MatchAt(s, 1, p)
EndsWith(s, p) == Len(p) <= Len(s) /\ MatchAt(s, Len(s) - Len(p) + 1, p)

\* s[1:-1]
Slice1m1(s) == SubSeq(s, 2, Len(s) - 1)

\* a < b for str: lexicographic on code points
RECURSIVE StrLess(_, _)
StrLess(a, b) ==
    IF b = <<>> THEN FALSE
    ELSE IF a = <<>> THEN TRUE
    ELSE IF Head(a) # Head(b) THEN Ord(Head(a)) < Ord(Head(b))
    ELSE StrLess(Tail(a), Tail(b))

\* sep.join(parts)
RECURSIVE Join(_, _)
Join(sep, parts) ==
    IF parts = <<>> THEN <<>>
    ELSE IF Len(parts) = 1 THEN parts[1]
    ELSE parts[1] \o sep \o Join(sep, Tail(parts))

---------------------------------------------------------------------------
(* The string literals of the source *)

sOr == <<" ", "o", "r", " ">>
sAnd == <<" ", "a", "n", "d", " ">>
sEqEq == <<"=", "=">>
sEq == <<"=">>
sQuote == <<"\"">>
sOsName == <<"o", "s", "_", "n", "a", "m", "e">>
sSysPlatform == <<"s", "y", "s", "_", "p", "l", "a", "t", "f", "o", "r", "m">>
sPlatformMachine ==
    <<"p", "l", "a", "t", "f", "o", "r", "m", "_", "m", "a", "c", "h", "i", "n", "e">>
sInternal == <<"_", "i", "n", "t", "e", "r", "n", "a", "l">>
sHelloHello == <<"h", "e", "l", "l", "o", "h", "e", "l", "l", "o">>

\* _Key.__members__
KeyMembers == {sOsName, sSysPlatform, sPlatformMachine, sInternal}

---------------------------------------------------------------------------
(* Marker *)

\* The condition of the `if` of Marker.parse's loop, on parts = chunk.split():
\* the chunk is refused.
BadParts(parts) ==
    \/ Len(parts) # 3
    \/ parts[1] \notin KeyMembers
    \/ parts[2] # sEqEq
    \/ ~StartsWith(parts[3], sQuote)
    \/ ~EndsWith(parts[3], sQuote)

\* ret.append((_Key[parts[0]], parts[2][1:-1]))
PartOf(parts) == <<parts[1], Slice1m1(parts[3])>>

NoMarker == [orig |-> <<>>, parts |-> <<>>]

\* The loop of Marker.parse over chunks = s.split(' and '), from chunk i on,
\* with ret so far: the first refused chunk raises.
RECURSIVE ParseChunks(_, _, _, _)
ParseChunks(s, chunks, i, ret) ==
    IF i > Len(chunks)
    THEN [tag |-> "ok", kind |-> "", chunk |-> <<>>,
          marker |-> [orig |-> s, parts |-> ret]]
    ELSE IF BadParts(SplitWs(chunks[i]))
    THEN [tag |-> "ValueError", kind |-> "invalid_marker_part", chunk |-> chunks[i],
          marker |-> NoMarker]
    ELSE ParseChunks(s, chunks, i + 1, Append(ret, PartOf(SplitWs(chunks[i]))))

\* Marker.parse with the ' or ' test after the loop over the chunks
MarkerParseOrLast(s) ==
    IF ParseChunks(s, Split(s, sAnd), 1, <<>>).tag # "ok"
    THEN ParseChunks(s, Split(s, sAnd), 1, <<>>)
    ELSE IF Contains(s, sOr)
    THEN [tag |-> "NotImplementedError", kind |-> "only_and", chunk |-> <<>>,
          marker |-> NoMarker]
    ELSE ParseChunks(s, Split(s, sAnd), 1, <<>>)

\* Marker.parse(s): tag "ok" with the Marker, "NotImplementedError", or
\* "ValueError" with the chunk the message quotes.
MarkerParse(s) ==
    IF Contains(s, sOr)
    THEN [tag |-> "NotImplementedError", kind |-> "only_and", chunk |-> <<>>,
          marker |-> NoMarker]
    ELSE ParseChunks(s, Split(s, sAnd), 1, <<>>)

\* Marker.evaluate with any() for all()
MarkerEvaluateAny(m, e) ==
    \E i \in 1..Len(m.parts) : e[m.parts[i][1]] = m.parts[i][2]

\* Marker.evaluate(env)
MarkerEvaluate(m, e) ==
    \A i \in 1..Len(m.parts) : e[m.parts[i][1]] = m.parts[i][2]


---------------------------------------------------------------------------
(* Archive, File and _parse *)

sUrl == <<"u", "r", "l">>
sSha256 == <<"s", "h", "a", "2", "5", "6">>
sExtract == <<"e", "x", "t", "r", "a", "c", "t">>
sExtractPath == <<"e", "x", "t", "r", "a", "c", "t", "_", "p", "a", "t", "h">>
sGroup == <<"g", "r", "o", "u", "p">>
sMarker == <<"m", "a", "r", "k", "e", "r">>
sNoop == <<"n", "o", "o", "p">>
sTar == <<"t", "a", "r">>
sZip == <<"z", "i", "p">>

\* The keys of _EXTRACT
ExtractKeys == {sNoop, sTar, sZip}

\* Archive(strategy, path), and Archive() with its defaults
Archive(strategy, path) == [strategy |-> strategy, path |-> path]
DefaultArchive == Archive(sNoop, <<>>)

\* File(path, url, sha256, archive, group, markers)
File(path, url, sha256, archive, group, markers) ==
    [path |-> path, url |-> url, sha256 |-> sha256, archive |-> archive,
     group |-> group, markers |-> markers]

\* The dict `values` of _parse before the first line of a section
NoValues ==
    [url |-> NoneV, sha256 |-> NoneV, extract |-> NoneV, extract_path |-> NoneV,
     group |-> NoneV]

\* values[k] for one of the five keys, and values with values[k] = v
ValueAt(values, k) ==
    CASE k = sUrl -> values.url
      [] k = sSha256 -> values.sha256
      [] k = sExtract -> values.extract
      [] k = sExtractPath -> values.extract_path
      [] OTHER -> values.group

WithValue(values, k, v) ==
    CASE k = sUrl -> [values EXCEPT !.url = Some(v)]
      [] k = sSha256 -> [values EXCEPT !.sha256 = Some(v)]
      [] k = sExtract -> [values EXCEPT !.extract = Some(v)]
      [] k = sExtractPath -> [values EXCEPT !.extract_path = Some(v)]
      [] OTHER -> [values EXCEPT !.group = Some(v)]

\* What _parse raises or returns: kind names the message, path the section
\* and key the key the message names.
ParseError(kind, path, key) ==
    [tag |-> "error", kind |-> kind, path |-> path, key |-> key, files |-> <<>>]
ParseOk(files) ==
    [tag |-> "ok", kind |-> "", path |-> <<>>, key |-> <<>>, files |-> files]

\* What the loop over a section's lines ends with: the error raised, or tag
\* "ok" with values and markers after the last line.
LinesError(e) == [tag |-> "error", err |-> e, values |-> NoValues, markers |-> <<>>]
LinesOk(values, markers) ==
    [tag |-> "ok", err |-> ParseOk(<<>>), values |-> values, markers |-> markers]

\* The loop over the lines of one section's body: ParseLines takes the next
\* line, ParseLine has kv = line.split('=', 1), ParseKeyValue the stripped k
\* and v, ParseMarkerLine the outcome m of Marker.parse(v).
RECURSIVE ParseLines(_, _, _, _)
RECURSIVE ParseLine(_, _, _, _, _)
RECURSIVE ParseKeyValue(_, _, _, _, _, _)
RECURSIVE ParseMarkerLine(_, _, _, _, _)

ParseLines(path, lines, values, markers) ==
    IF lines = <<>> THEN LinesOk(values, markers)
    ELSE ParseLine(path, lines, Split1(Head(lines), sEq), values, markers)

ParseLine(path, lines, kv, values, markers) ==
    IF Len(kv) # 2 THEN LinesError(ParseError("unpack", path, <<>>))
    ELSE ParseKeyValue(path, lines, Strip(kv[1]), Strip(kv[2]), values, markers)

ParseKeyValue(path, lines, k, v, values, markers) ==
    IF k = sMarker
    THEN ParseMarkerLine(path, lines, MarkerParse(v), values, markers)
    ELSE IF k \in {sUrl, sSha256, sExtract, sExtractPath, sGroup}
    THEN IF ValueAt(values, k).some
         THEN LinesError(ParseError("duplicate_key", path, k))
         ELSE ParseLines(path, Tail(lines), WithValue(values, k, v), markers)
    ELSE LinesError(ParseError("unexpected_key", path, k))

ParseMarkerLine(path, lines, m, values, markers) ==
    IF m.tag = "ok"
    THEN ParseLines(path, Tail(lines), values, Append(markers, m.marker))
    ELSE LinesError(ParseError(m.kind, path, sMarker))

\* The checks of _parse after a section's lines, in the order of the code:
\* the error raised, or tag "ok" with the one File.
ValidateSection(path, url, sha256, extract, extract_path, group, markers) ==
    IF ~url.some \/ ~sha256.some
    THEN ParseError("missing_url_sha256", path, <<>>)
    ELSE IF Truthy(extract) # Truthy(extract_path)
    THEN ParseError("missing_extract_extract_path", path, <<>>)
    ELSE IF extract.some /\ extract.val \notin ExtractKeys
    THEN ParseError("unexpected_extract", path, sExtract)
    ELSE IF Truthy(group) # (markers # <<>>)
    THEN ParseError("missing_group_marker", path, <<>>)
    ELSE ParseOk(<<File(path, url.val, sha256.val,
                        IF extract.some /\ extract_path.some
                        THEN Archive(extract.val, extract_path.val)
                        ELSE DefaultArchive,
                        group, markers)>>)

\* One section with r the outcome of the loop over its lines
SectionResult(path, r) ==
    IF r.tag = "error" THEN r.err
    ELSE ValidateSection(path, r.values.url, r.values.sha256, r.values.extract,
                         r.values.extract_path, r.values.group, r.markers)

\* One iteration of the loop `for path, body in zip(parts, parts)`
ParseSection(sec) ==
    SectionResult(sec.path, ParseLines(sec.path, sec.body, NoValues, <<>>))

\* The loop over the sections, r the outcome of the first of secs: the first
\* error, or the Files in order.
RECURSIVE ParseSections(_, _)
RECURSIVE AfterSection(_, _, _)

ParseSections(secs, ret) ==
    IF secs = <<>> THEN ParseOk(ret)
    ELSE AfterSection(secs, ret, ParseSection(Head(secs)))

AfterSection(secs, ret, r) ==
    IF r.tag = "error" THEN r
    ELSE ParseSections(Tail(secs), ret \o r.files)

\* _parse(s, section).  The text s is what _SECTION.split((s or '').strip())
\* makes of it: the stray text before the first header, then one (path, body)
\* per header, the body as the lines of body.strip().splitlines().
Parse(m) ==
    IF m.junk # <<>> THEN ParseError("unexpected_value", <<>>, m.junk)
    ELSE ParseSections(m.sections, <<>>)

---------------------------------------------------------------------------
(* _filter *)

FilterError(kind, name) == [tag |-> "error", kind |-> kind, name |-> name, files |-> <<>>]
FilterOk(files) == [tag |-> "ok", kind |-> "", name |-> <<>>, files |-> files]

\* not f.markers or any(m.evaluate(env) for m in f.markers)
Selected(f, e) ==
    \/ f.markers = <<>>
    \/ \E i \in 1..Len(f.markers) : MarkerEvaluate(f.markers[i], e)

\* ret built back to front
RECURSIVE SelectReversed(_, _)
SelectReversed(files, e) ==
    IF files = <<>> THEN <<>>
    ELSE IF Selected(Head(files), e)
    THEN SelectReversed(Tail(files), e) \o <<Head(files)>>
    ELSE SelectReversed(Tail(files), e)

\* The list comprehension that builds ret
RECURSIVE Select(_, _)
Select(files, e) ==
    IF files = <<>> THEN <<>>
    ELSE IF Selected(Head(files), e)
    THEN <<Head(files)>> \o Select(Tail(files), e)
    ELSE Select(Tail(files), e)

\* The loop over ret without seen.add(f.path)
RECURSIVE ScanNoSeenAdd(_, _, _)
ScanNoSeenAdd(ret, seen, seen_groups) ==
    IF ret = <<>>
    THEN [tag |-> "ok", err |-> FilterOk(<<>>), seen_groups |-> seen_groups]
    ELSE IF Head(ret).path \in seen
    THEN [tag |-> "error", err |-> FilterError("path_multiple", Head(ret).path),
          seen_groups |-> seen_groups]
    ELSE IF Head(ret).group.some /\ Head(ret).group.val \in seen_groups
    THEN [tag |-> "error", err |-> FilterError("group_multiple", Head(ret).group.val),
          seen_groups |-> seen_groups]
    ELSE ScanNoSeenAdd(Tail(ret), seen,
                       IF Head(ret).group.some
                       THEN seen_groups \cup {Head(ret).group.val}
                       ELSE seen_groups)

\* The loop over ret with seen and seen_groups: the conflict error raised, or
\* tag "ok" with seen_groups after the last descriptor.
RECURSIVE Scan(_, _, _)
Scan(ret, seen, seen_groups) ==
    IF ret = <<>>
    THEN [tag |-> "ok", err |-> FilterOk(<<>>), seen_groups |-> seen_groups]
    ELSE LET f == Head(ret) IN
         IF f.path \in seen
         THEN [tag |-> "error", err |-> FilterError("path_multiple", f.path),
               seen_groups |-> seen_groups]
         ELSE IF f.group.some /\ f.group.val \in seen_groups
         THEN [tag |-> "error", err |-> FilterError("group_multiple", f.group.val),
               seen_groups |-> seen_groups]
         ELSE Scan(Tail(ret), seen \cup {f.path},
                   IF f.group.some THEN seen_groups \cup {f.group.val}
                   ELSE seen_groups)

\* The group names of ret, the selected subset, for those of src
GroupsOfSelected(files, ret) ==
    {ret[i].group.val : i \in {j \in 1..Len(ret) : ret[j].group.some}}

\* {f.group for f in src if f.group is not None}; ret is the selected subset
GroupsToCheck(files, ret) ==
    {files[i].group.val : i \in {j \in 1..Len(files) : files[j].group.some}}

\* sorted(names) of a set of str
RECURSIVE Sorted(_)
Sorted(names) ==
    IF names = {} THEN <<>>
    ELSE LET least == CHOOSE a \in names : \A b \in names : ~StrLess(b, a)
         IN <<least>> \o Sorted(names \ {least})

\* The loop over the sorted group names: the first one not in seen_groups
MissingGroups(groups, seen_groups) ==
    SelectSeq(groups, LAMBDA g : g \notin seen_groups)

\* The end of _filter: the conflict error of the scan, else the loop over the
\* sorted group names of src, else tuple(ret)
FilterResult(files, ret, scan) ==
    IF scan.tag = "error" THEN scan.err
    ELSE IF MissingGroups(Sorted(GroupsToCheck(files, ret)), scan.seen_groups) # <<>>
    THEN FilterError("unsupported",
                     MissingGroups(Sorted(GroupsToCheck(files, ret)), scan.seen_groups)[1])
    ELSE FilterOk(ret)

FilterSelected(files, ret) == FilterResult(files, ret, Scan(ret, {}, {}))

\* _filter(src, section) on a platform whose _default_env() is e
Filter(files, e) == FilterSelected(files, Select(files, e))

---------------------------------------------------------------------------
(* _extract_*, _download *)

\* bytes: a plain payload, or a tar / zip container with its members
\* (name, contents).  NoBytes stands where no bytes are.
Raw(id) == [fmt |-> "raw", id |-> id, members |-> {}]
Container(fmt, id, members) == [fmt |-> fmt, id |-> id, members |-> members]
NoBytes == [fmt |-> "none", id |-> "", members |-> {}]

ExtractOk(bts) == [tag |-> "ok", bts |-> bts]
ExtractFail == [tag |-> "error", bts |-> NoBytes]

\* _extract_noop(bts, src)
ExtractNoop(bts, member) == ExtractOk(bts)

\* tarfile.open / ZipFile on bytes that are no such container raises, and so
\* does reading a member the container does not hold.
ExtractMember(fmt, bts, member) ==
    IF bts.fmt # fmt THEN ExtractFail
    ELSE LET found == {m \in bts.members : m[1] = member} IN
         IF found = {} THEN ExtractFail
         ELSE ExtractOk((CHOOSE m \in found : TRUE)[2])

\* _extract_tar(bts, src), _extract_zip(bts, src)
ExtractTar(bts, member) == ExtractMember("tar", bts, member)
ExtractZip(bts, member) == ExtractMember("zip", bts, member)

\* _EXTRACT[strategy](contents, path)
Extract(strategy, bts, member) ==
    CASE strategy = sNoop -> ExtractNoop(bts, member)
      [] strategy = sTar -> ExtractTar(bts, member)
      [] strategy = sZip -> ExtractZip(bts, member)
      [] OTHER -> ExtractFail

\* The payloads a server can answer with
sMember == <<"m">>
PlainBytes == Raw("plain")
InnerBytes == Raw("inner")
TarBytes == Container("tar", "tarball", {<<sMember, InnerBytes>>})
ZipBytes == Container("zip", "zipfile", {<<sMember, InnerBytes>>})
Payloads == {PlainBytes, TarBytes, ZipBytes}

\* hashlib.sha256(contents).hexdigest(): lowercase hex, one digest per
\* payload (the 64 digits are cut to 2).
Sha256Hex(bts) ==
    CASE bts = PlainBytes -> <<"a", "1">>
      [] bts = TarBytes -> <<"b", "2">>
      [] bts = ZipBytes -> <<"c", "0">>
      [] bts = InnerBytes -> <<"d", "1">>
      [] OTHER -> <<"e", "0">>

\* secrets.compare_digest(got, expected) of two str
CompareDigest(got, expected) == got = expected

\* urllib.request.urlopen(url).read(): the bytes, or an error raised
NetworkFailure == [tag |-> "error", bts |-> NoBytes]
Response(bts) == [tag |-> "ok", bts |-> bts]

NoDigest == <<>>
DownloadOutcome(tag, kind, got, expected, extracted, wrote) ==
    [tag |-> tag, kind |-> kind, got |-> got, expected |-> expected,
     extracted |-> extracted, wrote |-> wrote]

\* os.path.join(a, p) of posixpath: an absolute p replaces a
sSlash == <<"/">>
PathJoin(a, p) ==
    IF StartsWith(p, sSlash) THEN p
    ELSE IF a = <<>> \/ EndsWith(a, sSlash) THEN a \o p
    ELSE a \o sSlash \o p

\* os.path.join(a, b, p): the same rule, part after part
PathJoin3(a, b, p) == PathJoin(PathJoin(a, b), p)

\* os.path.join(base, f.path)
Dest(base, path) == PathJoin(base, path)

\* The end of _download, with got the digest of contents and x the outcome
\* of the extraction strategy
DownloadVerified(f, base, contents, got, x, disk) ==
    IF x.tag = "error"
    THEN [outcome |-> DownloadOutcome("error", "extract", got, f.sha256, TRUE, FALSE),
          disk |-> disk]
    ELSE [outcome |-> DownloadOutcome("ok", "", got, f.sha256, TRUE, TRUE),
          disk |-> [disk EXCEPT ![Dest(base, f.path)] = x.bts]]

\* _download with the digest compared after the file is written
DownloadContentsWriteFirst(f, base, contents, got, disk) ==
    IF ~CompareDigest(got, f.sha256)
    THEN [outcome |-> DownloadOutcome("error", "checksum_mismatch", got, f.sha256,
                                      TRUE, TRUE),
          disk |-> DownloadVerified(f, base, contents, got,
                                    Extract(f.archive.strategy, contents, f.archive.path),
                                    disk).disk]
    ELSE DownloadVerified(f, base, contents, got,
                          Extract(f.archive.strategy, contents, f.archive.path), disk)

\* _download from the digest check on, with contents = req.read()
DownloadContents(f, base, contents, got, disk) ==
    IF ~CompareDigest(got, f.sha256)
    THEN [outcome |-> DownloadOutcome("error", "checksum_mismatch", got, f.sha256,
                                      FALSE, FALSE),
          disk |-> disk]
    ELSE DownloadVerified(f, base, contents, got,
                          Extract(f.archive.strategy, contents, f.archive.path), disk)

\* _download(f, base) when urlopen answers resp and the disk holds disk:
\* the outcome, and the disk afterwards.
Download(f, base, resp, disk) ==
    IF resp.tag = "error"
    THEN [outcome |-> DownloadOutcome("error", "network", NoDigest, NoDigest, FALSE, FALSE),
          disk |-> disk]
    ELSE DownloadContents(f, base, resp.bts, Sha256Hex(resp.bts), disk)

---------------------------------------------------------------------------
(* The commands setuptools_download and install_setuptools_download *)

sDownload == <<"d", "o", "w", "n", "l", "o", "a", "d">>
sDataFiles == <<"d", "a", "t", "a", "_", "f", "i", "l", "e", "s">>
sScripts == <<"s", "c", "r", "i", "p", "t", "s">>

\* What a command raised: the attribute or method it came from and the kind
\* of the message
NoError == [tag |-> "none", where |-> "", kind |-> ""]
Error(where, kind) == [tag |-> "error", where |-> where, kind |-> kind]

\* setuptools_download.initialize_options: every attribute is None
DownloadCommand ==
    [parsed_data_files |-> NoneV, parsed_scripts |-> NoneV,
     build_temp |-> NoneV, download_dir |-> NoneV]

\* install_setuptools_download.initialize_options
InstallCommand ==
    [parsed_data_files |-> NoneV, parsed_scripts |-> NoneV, download_dir |-> NoneV,
     install_data |-> NoneV, install_scripts |-> NoneV]

\* setuptools_download._parse(attr): _filter(_parse(getattr(self, attr), attr), attr),
\* with p what _parse returned or raised and r what _filter did
AttrFiltered(r) == [tag |-> r.tag, kind |-> r.kind, files |-> r.files]
AttrParsed(p, e) ==
    IF p.tag = "error" THEN [tag |-> "error", kind |-> p.kind, files |-> <<>>]
    ELSE AttrFiltered(Filter(p.files, e))
ParseAttr(m, e) == AttrParsed(Parse(m), e)

\* The end of setuptools_download.finalize_options, s the outcome of
\* self._parse('download_scripts'): parsed_scripts, then build_temp from the
\* build command and download_dir under it
FinalizeScripts(c, s, build_temp) ==
    IF s.tag = "error"
    THEN [cmd |-> c, raised |-> Error("download_scripts", s.kind)]
    ELSE [cmd |-> [c EXCEPT !.parsed_scripts = Some(s.files),
                            !.build_temp = Some(build_temp),
                            !.download_dir = Some(PathJoin(build_temp, sDownload))],
          raised |-> NoError]

\* finalize_options with parsed_scripts taken from the data-files attribute
FinalizeDataFilesTwice(c, d, scripts, e, build_temp) ==
    IF d.tag = "error"
    THEN [cmd |-> c, raised |-> Error("download_data_files", d.kind)]
    ELSE FinalizeScripts([c EXCEPT !.parsed_data_files = Some(d.files)], d, build_temp)

\* setuptools_download.finalize_options from its first statement on, d the
\* outcome of self._parse('download_data_files') and scripts the text of
\* download_scripts
FinalizeDataFiles(c, d, scripts, e, build_temp) ==
    IF d.tag = "error"
    THEN [cmd |-> c, raised |-> Error("download_data_files", d.kind)]
    ELSE FinalizeScripts([c EXCEPT !.parsed_data_files = Some(d.files)],
                         ParseAttr(scripts, e), build_temp)

\* setuptools_download.finalize_options on a platform whose snapshot is e
FinalizeOptionsOf(c, opts, e, build_temp) ==
    FinalizeDataFiles(c, ParseAttr(opts.download_data_files, e),
                      opts.download_scripts, e, build_temp)

\* The two loops of setuptools_download.run as one sequence: for each subdir
\* of todo, in order, each file with base = os.path.join(download_dir, subdir)
PlanOf(download_dir, subdir, files) ==
    [i \in 1..Len(files) |-> [base |-> PathJoin(download_dir, subdir), f |-> files[i]]]
Plan(c) ==
    PlanOf(c.download_dir.val, sDataFiles, c.parsed_data_files.val)
        \o PlanOf(c.download_dir.val, sScripts, c.parsed_scripts.val)

\* The loops of run that go on to the next file when _download raised
RunStepBestEffort(rest, outcome) ==
    IF rest = <<>>
    THEN [pc |-> "downloaded", todo |-> <<>>, raised |-> NoError]
    ELSE [pc |-> "downloading", todo |-> rest, raised |-> NoError]

\* The loops of run after one call of _download with the given outcome, rest
\* the pairs after this one: an exception leaves run
RunStep(rest, outcome) ==
    IF outcome.tag = "error"
    THEN [pc |-> "download_failed", todo |-> <<>>, raised |-> Error("run", outcome.kind)]
    ELSE IF rest = <<>>
    THEN [pc |-> "downloaded", todo |-> <<>>, raised |-> NoError]
    ELSE [pc |-> "downloading", todo |-> rest, raised |-> NoError]

\* The bits of st_mode: stat.S_IXUSR | stat.S_IXGRP | stat.S_IXOTH, and the
\* 0o666 that open(dest, 'wb') asks for when it creates the file
ExecBits == {"S_IXUSR", "S_IXGRP", "S_IXOTH"}
CreateBits == {"S_IRUSR", "S_IWUSR", "S_IRGRP", "S_IWGRP", "S_IROTH", "S_IWOTH"}

\* The mode after open(dest, 'wb') of a file that held old: a new file gets
\* the creation bits less the umask, an existing one keeps its mode
ModeAfterOpen(old, mode, mask) == IF old = NoBytes THEN CreateBits \ mask ELSE mode

\* cmd.set_undefined_options(src, (opt, opt)): taken from the other command
\* when still None here
SetUndefined(own, other) == IF own.some THEN own ELSE other

\* install_setuptools_download.finalize_options
InstallFinalizeOptionsOf(ic, c, install_data, install_scripts) ==
    [parsed_data_files |-> SetUndefined(ic.parsed_data_files, c.parsed_data_files),
     parsed_scripts |-> SetUndefined(ic.parsed_scripts, c.parsed_scripts),
     download_dir |-> SetUndefined(ic.download_dir, c.download_dir),
     install_data |-> SetUndefined(ic.install_data, Some(install_data)),
     install_scripts |-> SetUndefined(ic.install_scripts, Some(install_scripts))]

\* The disk while install_setuptools_download.run goes on
Installing(disk, mds, cps) ==
    [tag |-> "ok", kind |-> "", fs |-> disk, modes |-> mds, copied |-> cps]

\* shutil.copy(src, dest): the contents and the permission bits of src
Copy(st, from, to) ==
    IF st.fs[from] = NoBytes
    THEN [st EXCEPT !.tag = "error", !.kind = "FileNotFoundError"]
    ELSE IF from = to
    THEN [st EXCEPT !.tag = "error", !.kind = "SameFileError"]
    ELSE [st EXCEPT !.fs[to] = st.fs[from], !.modes[to] = st.modes[from],
                    !.copied = Append(st.copied, [src |-> from, dest |-> to])]

\* os.chmod(dest, mode) with the execute bits alone for mode
MakeExecutableOnly(st, to) ==
    IF st.tag = "error" THEN st
    ELSE [st EXCEPT !.modes[to] = ExecBits]

\* mode = os.stat(dest).st_mode; mode |= the execute bits; os.chmod(dest, mode)
MakeExecutable(st, to) ==
    IF st.tag = "error" THEN st
    ELSE [st EXCEPT !.modes[to] = st.modes[to] \cup ExecBits]

\* The loop over parsed_data_files
RECURSIVE InstallDataFiles(_, _, _, _)
InstallDataFiles(st, files, download_dir, install_data) ==
    IF st.tag = "error" \/ files = <<>> THEN st
    ELSE InstallDataFiles(Copy(st, PathJoin3(download_dir, sDataFiles, Head(files).path),
                               PathJoin(install_data, Head(files).path)),
                          Tail(files), download_dir, install_data)

\* The loop over parsed_scripts
RECURSIVE InstallScripts(_, _, _, _)
InstallScripts(st, files, download_dir, install_scripts) ==
    IF st.tag = "error" \/ files = <<>> THEN st
    ELSE InstallScripts(
             MakeExecutable(Copy(st, PathJoin3(download_dir, sScripts, Head(files).path),
                                 PathJoin(install_scripts, Head(files).path)),
                            PathJoin(install_scripts, Head(files).path)),
             Tail(files), download_dir, install_scripts)

\* install_setuptools_download.run on the disk st
InstallRunOf(ic, st) ==
    InstallScripts(InstallDataFiles(st, ic.parsed_data_files.val, ic.download_dir.val,
                                    ic.install_data.val),
                   ic.parsed_scripts.val, ic.download_dir.val, ic.install_scripts.val)

---------------------------------------------------------------------------
(* The inputs of Marker.parse: clauses of tokens joined by ' and ' / ' or ' *)

MaxClauses == 2

sExtra == <<"e", "x", "t", "r", "a">>
sNe == <<"!", "=">>
sNt == <<"n", "t">>
sQNtQ == <<"\"", "n", "t", "\"">>
sQNt == <<"\"", "n", "t">>
sNtQ == <<"n", "t", "\"">>
sOrWord == <<"o", "r">>
sSp == <<" ">>
sTab == <<"\t">>

KeyToks == {sOsName, sExtra}
OpToks == {sEqEq, sNe}
ValToks == {sQNtQ, sNt, sQNt, sNtQ, sQuote}

ClauseTexts ==
    {Join(sSp, <<k, o, v>>) : k \in KeyToks, o \in OpToks, v \in ValToks}
    \cup { <<>>,
           Join(sSp, <<sOsName, sEqEq>>),
           Join(sSp, <<sOsName, sEqEq, sQNt, sNtQ>>),
           Join(sSp, <<sOsName, sEqEq, sQNtQ, sOrWord>>),
           Join(sSp, <<sOrWord, sOsName, sEqEq, sQNtQ>>),
           Join(sTab, <<sOsName, sEqEq, sQNtQ>>),
           Join(sTab, <<sOsName, sEqEq, sQNtQ, sOrWord, sOsName, sEqEq, sQNtQ>>) }

Joiners == {sAnd, sOr}

RECURSIVE JoinAlt(_, _)
JoinAlt(cs, js) ==
    IF Len(cs) = 1 THEN cs[1]
    ELSE cs[1] \o js[1] \o JoinAlt(Tail(cs), Tail(js))

\* s is a text of the model: 1..MaxClauses clauses with joiners between them
IsMarkerText(s) ==
    \E n \in 1..MaxClauses :
        \E cs \in [1..n -> ClauseTexts], js \in [1..(n - 1) -> Joiners] :
            s = JoinAlt(cs, js)

---------------------------------------------------------------------------
(* The inputs of _parse: sections whose bodies take, key by key, no line,  *)
(* a line with an empty value or a line with a value                       *)

MaxSections == 2

sU == <<"u">>
sD == <<"d">>
sAr == <<"a", "r">>
sG == <<"g">>
sBogus == <<"b", "o", "g", "u", "s">>
sStray == <<"x">>

\* The text of the line `k = v`
Line(k, v) == k \o <<" ", "=", " ">> \o v

UrlSha256Lines == {<<Line(sUrl, sU), Line(sSha256, sD)>>, <<Line(sUrl, sU)>>}
ExtractLines == {<<>>, <<Line(sExtract, <<>>)>>, <<Line(sExtract, sTar)>>,
                 <<Line(sExtract, sAr)>>}
ExtractPathLines == {<<>>, <<Line(sExtractPath, <<>>)>>, <<Line(sExtractPath, sMember)>>}
GroupLines == {<<>>, <<Line(sGroup, <<>>)>>, <<Line(sGroup, sG)>>}
MarkerLines == {<<>>, <<Line(sMarker, Join(sSp, <<sOsName, sEqEq, sQNtQ>>))>>,
                <<Line(sMarker, Join(sSp, <<sOsName, sEqEq, sNt>>))>>}

SectionBodies ==
    {uh \o x \o xp \o g \o m :
        uh \in UrlSha256Lines, x \in ExtractLines,
        xp \in ExtractPathLines, g \in GroupLines, m \in MarkerLines}
    \cup { <<Line(sSha256, sD)>>,
           <<Line(sUrl, sU), Line(sSha256, sD), Line(sUrl, sU)>>,
           <<Line(sUrl, sU), Line(sBogus, sD)>> }

\* The header of the i-th section
SectionPath(i) == <<"f", CASE i = 1 -> "1" [] i = 2 -> "2" [] i = 3 -> "3" [] OTHER -> "4">>

\* m is a manifest of the model: stray text alone, or 0..MaxSections sections
IsManifest(m) ==
    \/ m = [junk |-> sStray, sections |-> <<>>]
    \/ \E n \in 0..MaxSections :
        \E b \in [1..n -> SectionBodies] :
            m = [junk |-> <<>>,
                 sections |-> [i \in 1..n |-> [path |-> SectionPath(i), body |-> b[i]]]]

---------------------------------------------------------------------------
(* The inputs of _filter *)

MaxFiles == 3

sF1 == SectionPath(1)
sF2 == SectionPath(2)
sGa == <<"g", "a">>
sGb == <<"g", "b">>
sPosix == <<"p", "o", "s", "i", "x">>
sLinux == <<"l", "i", "n", "u", "x">>
sWin32 == <<"w", "i", "n", "3", "2">>
sAmd64 == <<"A", "M", "D", "6", "4">>
sX86 == <<"x", "8", "6", "_", "6", "4">>

\* _default_env() on a Windows and on a Linux machine
EnvWindows ==
    (sOsName :> sNt) @@ (sSysPlatform :> sWin32) @@ (sPlatformMachine :> sAmd64)
        @@ (sInternal :> sHelloHello)
EnvLinux ==
    (sOsName :> sPosix) @@ (sSysPlatform :> sLinux) @@ (sPlatformMachine :> sX86)
        @@ (sInternal :> sHelloHello)
Envs == {EnvWindows, EnvLinux}

Quoted(v) == sQuote \o v \o sQuote
Clause(k, v) == Join(sSp, <<k, sEqEq, Quoted(v)>>)
MarkerOf(t) == MarkerParse(t).marker

\* sys_platform == "win32"
MWin == MarkerOf(Clause(sSysPlatform, sWin32))
\* os_name == "posix" and sys_platform == "linux"
MPosixLinux == MarkerOf(Clause(sOsName, sPosix) \o sAnd \o Clause(sSysPlatform, sLinux))
\* os_name == "posix" and sys_platform == "win32": true on neither machine
MMixed == MarkerOf(Clause(sOsName, sPosix) \o sAnd \o Clause(sSysPlatform, sWin32))

MarkerLists == {<<>>, <<MWin>>, <<MMixed, MPosixLinux>>}

FilterFiles ==
    {File(p, sU, sD, DefaultArchive, g, ms) :
        p \in {sF1, sF2}, g \in {NoneV, Some(sGa), Some(sGb)}, ms \in MarkerLists}

\* files is an input of the model: 0..MaxFiles descriptors
IsFilterInput(files) == \E n \in 0..MaxFiles : files \in [1..n -> FilterFiles]

---------------------------------------------------------------------------
(* The inputs of _download *)

sBase == <<"d", "a", "t", "a", "_", "f", "i", "l", "e", "s">>

Digests == {Sha256Hex(PlainBytes), <<"A", "1">>, Sha256Hex(TarBytes),
            Sha256Hex(ZipBytes), <<"0", "0">>}
Archives == {DefaultArchive, Archive(sTar, sMember), Archive(sZip, sMember)}

DownloadFiles ==
    {File(p, sU, h, a, NoneV, <<>>) : p \in {sF1, sF2}, h \in Digests, a \in Archives}

Responses == {NetworkFailure} \cup {Response(b) : b \in Payloads}

Dests == {Dest(sBase, p) : p \in {sF1, sF2}}
EmptyDisk == [d \in Dests |-> NoBytes]

---------------------------------------------------------------------------
(* The inputs of the commands: the two texts of setup.cfg, the platform,   *)
(* the umask, and what the server answers to each download                 *)

MaxEntries == 2

\* build_temp of the build command, install_data and install_scripts of the
\* install command
sBuildTemp == <<"b", "t">>
sInstallData == <<"i", "d">>
sInstallScripts == <<"i", "s">>

sAbs == <<"/", "a">>

UrlSha256(d) == <<Line(sUrl, sU), Line(sSha256, d)>>
ExtractTarMember == <<Line(sExtract, sTar), Line(sExtractPath, sMember)>>
GroupMarkers(ms) == <<Line(sGroup, sG)>> \o [i \in 1..Len(ms) |-> Line(sMarker, ms[i])]

Section(path, body) == [path |-> path, body |-> body]

\* f1 plain; f2 out of a tar; f2 out of a tar whose digest is the plain
\* payload's; f1 on Windows; f2 on Windows and Linux, in the same group; f1
\* without sha256; f2 with an `or` marker; an absolute path
CommandSections ==
    { Section(sF1, UrlSha256(Sha256Hex(PlainBytes))),
      Section(sF2, UrlSha256(Sha256Hex(TarBytes)) \o ExtractTarMember),
      Section(sF2, UrlSha256(Sha256Hex(PlainBytes)) \o ExtractTarMember),
      Section(sF1, UrlSha256(Sha256Hex(PlainBytes))
                       \o GroupMarkers(<<Clause(sSysPlatform, sWin32)>>)),
      Section(sF2, UrlSha256(Sha256Hex(PlainBytes))
                       \o GroupMarkers(<<Clause(sSysPlatform, sWin32),
                                         Clause(sSysPlatform, sLinux)>>)),
      Section(sF1, <<Line(sUrl, sU)>>),
      Section(sF2, UrlSha256(Sha256Hex(PlainBytes))
                       \o GroupMarkers(<<Clause(sOsName, sNt) \o sOr
                                             \o Clause(sOsName, sPosix)>>)),
      Section(sAbs, UrlSha256(Sha256Hex(PlainBytes))) }

\* The text of an option: None and '' give no section
OptionText(secs) == [junk |-> <<>>, sections |-> secs]

\* o holds two texts of the model, of 0..MaxEntries sections together
IsOptions(o) ==
    \E n \in 0..MaxEntries :
      \E k \in 0..(MaxEntries - n) :
        \E d \in [1..n -> CommandSections], sc \in [1..k -> CommandSections] :
            o = [download_data_files |-> OptionText(d), download_scripts |-> OptionText(sc)]

\* umask 022 and umask 077
Umasks == { {"S_IWGRP", "S_IWOTH"},
            {"S_IRGRP", "S_IWGRP", "S_IXGRP", "S_IROTH", "S_IWOTH", "S_IXOTH"} }

CommandResponses == {NetworkFailure, Response(PlainBytes), Response(TarBytes)}

\* The files the commands can name
CommandPaths == {sF1, sF2, sAbs}
CommandDirs ==
    { PathJoin(PathJoin(sBuildTemp, sDownload), sDataFiles),
      PathJoin(PathJoin(sBuildTemp, sDownload), sScripts),
      sInstallData, sInstallScripts }
CommandDests == {PathJoin(d, p) : d \in CommandDirs, p \in CommandPaths}
EmptyTree == [d \in CommandDests |-> NoBytes]
NoModes == [d \in CommandDests |-> {}]

---------------------------------------------------------------------------
(* Values the variables of the other operations hold while one is checked *)

NotRun == [tag |-> "none", kind |-> "", chunk |-> <<>>, marker |-> NoMarker]
NoManifest == [junk |-> <<>>, sections |-> <<>>]
NotParsed == [tag |-> "none", kind |-> "", path |-> <<>>, key |-> <<>>, files |-> <<>>]
NotFiltered == [tag |-> "none", kind |-> "", name |-> <<>>, files |-> <<>>]
NoCall ==
    [called |-> FALSE, f |-> File(<<>>, <<>>, <<>>, DefaultArchive, NoneV, <<>>),
     base |-> <<>>, resp |-> NetworkFailure,
     outcome |-> DownloadOutcome("none", "", NoDigest, NoDigest, FALSE, FALSE),
     before |-> EmptyDisk]

MarkerIdle == text = <<>> /\ mres = NotRun
ParseIdle == manifest = NoManifest /\ pres = NotParsed
FilterIdle == src = <<>> /\ env = EnvLinux /\ fres = NotFiltered /\ fres2 = NotFiltered
DownloadIdle == fs = EmptyDisk /\ dl = NoCall

NoOptions == [download_data_files |-> OptionText(<<>>), download_scripts |-> OptionText(<<>>)]
CommandsIdle ==
    /\ options = NoOptions /\ umask = {} /\ pc = "idle"
    /\ cmd = DownloadCommand /\ icmd = InstallCommand
    /\ todo = <<>> /\ modes = <<>> /\ fetched = <<>> /\ copied = <<>>
    /\ raised = NoError

---------------------------------------------------------------------------
(* Marker.parse applied to a text *)

InitMarker ==
    /\ IsMarkerText(text)
    /\ mres = NotRun
    /\ ParseIdle /\ FilterIdle /\ DownloadIdle /\ CommandsIdle

CallMarkerParse ==
    /\ mres.tag = "none"
    /\ mres' = MarkerParse(text)
    /\ UNCHANGED <<text, manifest, pres, src, env, fres, fres2, fs, dl>>
    /\ UNCHANGED pipeVars

NextMarker == CallMarkerParse

SpecMarker == InitMarker /\ [][NextMarker]_vars

---------------------------------------------------------------------------
(* _parse applied to a manifest *)

InitParse ==
    /\ IsManifest(manifest)
    /\ pres = NotParsed
    /\ MarkerIdle /\ FilterIdle /\ DownloadIdle /\ CommandsIdle

CallParse ==
    /\ pres.tag = "none"
    /\ pres' = Parse(manifest)
    /\ UNCHANGED <<text, mres, manifest, src, env, fres, fres2, fs, dl>>
    /\ UNCHANGED pipeVars

NextParse == CallParse

SpecParse == InitParse /\ [][NextParse]_vars

---------------------------------------------------------------------------
(* _filter applied to a tuple of File, and then to its own result *)

InitFilter ==
    /\ IsFilterInput(src)
    /\ env \in Envs
    /\ fres = NotFiltered
    /\ fres2 = NotFiltered
    /\ MarkerIdle /\ ParseIdle /\ DownloadIdle /\ CommandsIdle

CallFilter ==
    /\ fres.tag = "none"
    /\ fres' = Filter(src, env)
    /\ UNCHANGED <<text, mres, manifest, pres, src, env, fres2, fs, dl>>
    /\ UNCHANGED pipeVars

CallFilterAgain ==
    /\ fres.tag = "ok"
    /\ fres2.tag = "none"
    /\ fres2' = Filter(fres.files, env)
    /\ UNCHANGED <<text, mres, manifest, pres, src, env, fres, fs, dl>>
    /\ UNCHANGED pipeVars

NextFilter == CallFilter \/ CallFilterAgain

SpecFilter == InitFilter /\ [][NextFilter]_vars

---------------------------------------------------------------------------
(* _download called, time after time, on the same disk *)

InitDownload ==
    /\ fs = EmptyDisk
    /\ dl = NoCall
    /\ MarkerIdle /\ ParseIdle /\ FilterIdle /\ CommandsIdle

CallDownload(f, base, resp) ==
    LET r == Download(f, base, resp, fs) IN
    /\ fs' = r.disk
    /\ dl' = [called |-> TRUE, f |-> f, base |-> base, resp |-> resp,
              outcome |-> r.outcome, before |-> fs]
    /\ UNCHANGED <<text, mres, manifest, pres, src, env, fres, fres2>>
    /\ UNCHANGED pipeVars

NextDownload == \E f \in DownloadFiles, resp \in Responses : CallDownload(f, sBase, resp)

SpecDownload == InitDownload /\ [][NextDownload]_vars

---------------------------------------------------------------------------
(* A build: setuptools_download is finalized and run, then                 *)
(* install_setuptools_download is finalized and run                        *)

InitCommands ==
    /\ IsOptions(options)
    /\ env \in Envs
    /\ umask \in Umasks
    /\ pc = "start"
    /\ cmd = DownloadCommand
    /\ icmd = InstallCommand
    /\ todo = <<>>
    /\ fs = EmptyTree
    /\ modes = NoModes
    /\ fetched = <<>>
    /\ copied = <<>>
    /\ raised = NoError
    /\ dl = NoCall
    /\ src = <<>> /\ fres = NotFiltered /\ fres2 = NotFiltered
    /\ MarkerIdle /\ ParseIdle

\* setuptools_download.finalize_options
FinalizeOptions ==
    LET r == FinalizeOptionsOf(cmd, options, env, sBuildTemp) IN
    /\ pc = "start"
    /\ cmd' = r.cmd
    /\ raised' = r.raised
    /\ pc' = IF r.raised.tag = "error" THEN "aborted" ELSE "finalized"
    /\ UNCHANGED <<text, mres, manifest, pres, src, env, fres, fres2, fs, dl>>
    /\ UNCHANGED <<options, umask, icmd, todo, modes, fetched, copied>>

\* setuptools_download.run up to its first call of _download
RunBegin ==
    /\ pc = "finalized"
    /\ todo' = Plan(cmd)
    /\ pc' = IF Plan(cmd) = <<>> THEN "downloaded" ELSE "downloading"
    /\ UNCHANGED <<text, mres, manifest, pres, src, env, fres, fres2, fs, dl>>
    /\ UNCHANGED <<options, umask, cmd, icmd, modes, fetched, copied, raised>>

\* One pass of the loops of setuptools_download.run: _download(f, base) for
\* the next pair, the server answering resp
RunDownload(resp) ==
    LET base == Head(todo).base
        f == Head(todo).f
        r == Download(f, base, resp, fs)
        step == RunStep(Tail(todo), r.outcome)
    IN /\ pc = "downloading"
       /\ fs' = r.disk
       /\ modes' = IF r.outcome.wrote
                   THEN [modes EXCEPT ![Dest(base, f.path)] =
                            ModeAfterOpen(fs[Dest(base, f.path)], @, umask)]
                   ELSE modes
       /\ fetched' = Append(fetched, [base |-> base, f |-> f, resp |-> resp,
                                      outcome |-> r.outcome])
       /\ pc' = step.pc
       /\ todo' = step.todo
       /\ raised' = step.raised
       /\ UNCHANGED <<text, mres, manifest, pres, src, env, fres, fres2, dl>>
       /\ UNCHANGED <<options, umask, cmd, icmd, copied>>

\* install_setuptools_download.finalize_options
InstallFinalizeOptions ==
    /\ pc = "downloaded"
    /\ icmd' = InstallFinalizeOptionsOf(icmd, cmd, sInstallData, sInstallScripts)
    /\ pc' = "install_finalized"
    /\ UNCHANGED <<text, mres, manifest, pres, src, env, fres, fres2, fs, dl>>
    /\ UNCHANGED <<options, umask, cmd, todo, modes, fetched, copied, raised>>

\* install_setuptools_download.run
InstallRun ==
    LET r == InstallRunOf(icmd, Installing(fs, modes, copied)) IN
    /\ pc = "install_finalized"
    /\ fs' = r.fs
    /\ modes' = r.modes
    /\ copied' = r.copied
    /\ raised' = IF r.tag = "error" THEN Error("install", r.kind) ELSE NoError
    /\ pc' = IF r.tag = "error" THEN "install_failed" ELSE "installed"
    /\ UNCHANGED <<text, mres, manifest, pres, src, env, fres, fres2, dl>>
    /\ UNCHANGED <<options, umask, cmd, icmd, todo, fetched>>

NextCommands ==
    \/ FinalizeOptions
    \/ RunBegin
    \/ \E resp \in CommandResponses : RunDownload(resp)
    \/ InstallFinalizeOptions
    \/ InstallRun

SpecCommands == InitCommands /\ [][NextCommands]_vars

---------------------------------------------------------------------------
(* Claims about Marker.parse, checked under SpecMarker *)

\* ' or ' stands at some position of s
HasOrAt(s) ==
    \E i \in 1..Len(s) :
        /\ i + 3 <= Len(s)
        /\ s[i] = " " /\ s[i + 1] = "o" /\ s[i + 2] = "r" /\ s[i + 3] = " "

\* The clause as the claim wants it: three tokens, a recognized key, `==`, and
\* a value between an opening and a closing double quote.
WellFormedClause(c) ==
    LET toks == SplitWs(c) IN
    /\ Len(toks) = 3
    /\ toks[1] \in {sOsName, sSysPlatform, sPlatformMachine, sInternal}
    /\ toks[2] = <<"=", "=">>
    /\ Len(toks[3]) >= 2
    /\ toks[3][1] = "\""
    /\ toks[3][Len(toks[3])] = "\""

\* The (key, text between the quotes) pair of a well-formed clause
ClausePair(c) ==
    LET toks == SplitWs(c) IN <<toks[1], SubSeq(toks[3], 2, Len(toks[3]) - 1)>>

\* C7: for a text without ' or ', Marker.parse succeeds exactly when every
\* ' and '-separated clause is three tokens `<recognized key> == "<value>"` with
\* the value wrapped in a pair of double quotes; on success the parts are the
\* (key, text between the quotes) pairs in clause order, and otherwise it raises
\* the 'invalid marker part' error quoting the first offending clause.
C7_ParseAcceptsExactlyQuotedClauses ==
    (mres.tag # "none" /\ ~HasOrAt(text)) =>
        LET clauses == Split(text, sAnd)
            offending == {i \in 1..Len(clauses) : ~WellFormedClause(clauses[i])}
        IN IF offending = {}
           THEN /\ mres.tag = "ok"
                /\ mres.marker.parts = [i \in 1..Len(clauses) |-> ClausePair(clauses[i])]
           ELSE /\ mres.tag = "ValueError"
                /\ mres.kind = "invalid_marker_part"
                /\ mres.chunk = clauses[CHOOSE i \in offending : \A j \in offending : i <= j]

\* C8: a text that holds ' or ' at any position is refused with the fixed
\* 'Marker only supports `and`' message, whatever else is wrong with it, and
\* never with the 'invalid marker part' error.
C8_OrRefusedFirst ==
    (mres.tag # "none" /\ HasOrAt(text)) =>
        /\ mres.tag = "NotImplementedError"
        /\ mres.kind = "only_and"

\* C8's case: ' or ' after a first clause that is itself no valid clause
C8_Witness ==
    /\ mres.tag = "NotImplementedError"
    /\ HasOrAt(text)
    /\ ~MatchAt(text, 1, sOr)
    /\ ~WellFormedClause(Split(text, sOr)[1])

---------------------------------------------------------------------------
(* Claims about _parse, checked under SpecParse *)

\* The key of a `k = v` line and its value
LineKey(line) == Strip(Split1(line, sEq)[1])
LineValue(line) == Strip(Split1(line, sEq)[2])

\* The section has a line with key k
HasLine(sec, k) == \E i \in 1..Len(sec.body) : LineKey(sec.body[i]) = k

\* The value of the section's first line with key k
ValueOfKey(sec, k) ==
    LineValue(sec.body[CHOOSE i \in 1..Len(sec.body) :
                          /\ LineKey(sec.body[i]) = k
                          /\ \A j \in 1..(i - 1) : LineKey(sec.body[j]) # k])

\* Every line has a recognized key, no key but `marker` comes twice, and every
\* marker line holds a marker Marker.parse accepts.
CleanLines(sec) ==
    /\ \A i \in 1..Len(sec.body) :
          LineKey(sec.body[i]) \in
              {sUrl, sSha256, sExtract, sExtractPath, sGroup, sMarker}
    /\ \A i, j \in 1..Len(sec.body) :
          (i < j /\ LineKey(sec.body[i]) = LineKey(sec.body[j]))
              => LineKey(sec.body[i]) = sMarker
    /\ \A i \in 1..Len(sec.body) :
          LineKey(sec.body[i]) = sMarker
              => MarkerParse(LineValue(sec.body[i])).tag = "ok"

\* The four rules of the post-section validation, by the presence of lines
BreaksUrlSha256(sec) == ~(HasLine(sec, sUrl) /\ HasLine(sec, sSha256))
BreaksExtractPair(sec) == HasLine(sec, sExtract) # HasLine(sec, sExtractPath)
BreaksStrategy(sec) ==
    HasLine(sec, sExtract) /\ ValueOfKey(sec, sExtract) \notin {sNoop, sTar, sZip}
BreaksGroupMarker(sec) == HasLine(sec, sGroup) # HasLine(sec, sMarker)

\* The error of the lowest-numbered rule the section breaks, "" when none
LowestBrokenRule(sec) ==
    IF BreaksUrlSha256(sec) THEN "missing_url_sha256"
    ELSE IF BreaksExtractPair(sec) THEN "missing_extract_extract_path"
    ELSE IF BreaksStrategy(sec) THEN "unexpected_extract"
    ELSE IF BreaksGroupMarker(sec) THEN "missing_group_marker"
    ELSE ""

Sections == manifest.sections
AllClean == manifest.junk = <<>> /\ \A i \in 1..Len(Sections) : CleanLines(Sections[i])

\* C4: a parsed descriptor has a group exactly when it has a marker; no
\* manifest with a section that has a `group` line but no `marker` line, or a
\* `marker` line but no `group` line, is accepted, and a first section whose
\* only defect is that one is refused with the 'missing `group` + `marker`'
\* error naming it.
C4_GroupIffMarkers ==
    pres.tag # "none" =>
        /\ pres.tag = "ok" =>
              /\ \A i \in 1..Len(pres.files) :
                    pres.files[i].group.some <=> (pres.files[i].markers # <<>>)
              /\ \A i \in 1..Len(Sections) : ~BreaksGroupMarker(Sections[i])
        /\ ( /\ AllClean
             /\ Sections # <<>>
             /\ LowestBrokenRule(Sections[1]) = "missing_group_marker" )
           => pres = ParseError("missing_group_marker", Sections[1].path, <<>>)

\* C5: no manifest with a section that has an `extract` line but no
\* `extract_path` line, or the reverse, is accepted; a first section whose
\* first defect is that one is refused with the 'missing `extract` +
\* `extract_path`' error; and a parsed descriptor has the default Archive
\* exactly when its section gave neither key.
C5_ExtractPairedByPresence ==
    pres.tag # "none" =>
        /\ pres.tag = "ok" =>
              /\ \A i \in 1..Len(Sections) : ~BreaksExtractPair(Sections[i])
              /\ \A i \in 1..Len(pres.files) :
                    (pres.files[i].archive = DefaultArchive)
                        <=> ( /\ ~HasLine(Sections[i], sExtract)
                              /\ ~HasLine(Sections[i], sExtractPath) )
        /\ ( /\ AllClean
             /\ Sections # <<>>
             /\ LowestBrokenRule(Sections[1]) = "missing_extract_extract_path" )
           => pres = ParseError("missing_extract_extract_path", Sections[1].path, <<>>)

\* C6: when every line of the manifest has a recognized, non-duplicated key
\* (and its markers parse) and some section breaks one of the four rules, the
\* error raised is that of the lowest-numbered rule broken by the first such
\* section, and names that section.
C6_LowestRuleOfFirstInvalidSection ==
    (pres.tag # "none" /\ AllClean) =>
        LET invalid == {i \in 1..Len(Sections) : LowestBrokenRule(Sections[i]) # ""} IN
        invalid # {} =>
            LET first == CHOOSE i \in invalid : \A j \in invalid : i <= j IN
            /\ pres.tag = "error"
            /\ pres.kind = LowestBrokenRule(Sections[first])
            /\ pres.path = Sections[first].path

---------------------------------------------------------------------------
(* Claims about _filter, checked under SpecFilter *)

\* The descriptor has no marker, or a marker all of whose (key, value) pairs
\* equal the snapshot's value at the key
Wanted(f) ==
    \/ Len(f.markers) = 0
    \/ \E i \in 1..Len(f.markers) :
          \A j \in 1..Len(f.markers[i].parts) :
              env[f.markers[i].parts[j][1]] = f.markers[i].parts[j][2]

\* The positions of src that hold a wanted descriptor, and the j-th of them
WantedAt == {i \in 1..Len(src) : Wanted(src[i])}
NthWanted(j) == CHOOSE i \in WantedAt : Cardinality({k \in WantedAt : k < i}) = j - 1

SamePath(i, j) == src[i].path = src[j].path
SameGroup(i, j) == src[i].group.some /\ src[j].group.some /\ src[i].group = src[j].group

PathClash == \E i, j \in WantedAt : i < j /\ SamePath(i, j)
GroupClash == \E i, j \in WantedAt : i < j /\ SameGroup(i, j)

\* The group names of src, and those no wanted descriptor carries
GroupNames == {src[i].group.val : i \in {j \in 1..Len(src) : src[j].group.some}}
Uncovered ==
    {g \in GroupNames : \A i \in WantedAt : src[i].group # Some(g)}

\* C1: when _filter succeeds, its result is the subsequence of src, in order
\* and unmodified, of the descriptors that have no marker or at least one
\* marker that holds in the snapshot.
C1_ResultIsWantedSubsequence ==
    fres.tag = "ok" =>
        /\ Len(fres.files) = Cardinality(WantedAt)
        /\ \A j \in 1..Len(fres.files) : fres.files[j] = src[NthWanted(j)]

\* C1's case: a result of two or more descriptors, one kept by its second
\* marker, with a descriptor dropped whose markers all fail
C1_Witness ==
    /\ fres.tag = "ok"
    /\ Len(fres.files) >= 2
    /\ \E j \in 1..Len(fres.files) : Len(fres.files[j].markers) = 2
    /\ \E i \in 1..Len(src) : ~Wanted(src[i])

\* A successful result repeats no path and no group.
ResultUnambiguous ==
    fres.tag = "ok" =>
        \A i, j \in 1..Len(fres.files) :
            i < j => /\ fres.files[i].path # fres.files[j].path
                     /\ ~( /\ fres.files[i].group.some
                           /\ fres.files[i].group = fres.files[j].group )

\* C2 as stated: a successful result repeats no path and no group; two
\* selected descriptors sharing a path make _filter fail with the path error
\* naming such a path, two sharing a group make it fail with the group error
\* naming such a group; and without such a pair there is no conflict error.
C2_Original ==
    fres.tag # "none" =>
        /\ ResultUnambiguous
        /\ PathClash =>
              /\ fres.tag = "error" /\ fres.kind = "path_multiple"
              /\ \E i, j \in WantedAt : i < j /\ SamePath(i, j) /\ fres.name = src[i].path
        /\ GroupClash =>
              /\ fres.tag = "error" /\ fres.kind = "group_multiple"
              /\ \E i, j \in WantedAt :
                    i < j /\ SameGroup(i, j) /\ fres.name = src[i].group.val
        /\ (~PathClash /\ ~GroupClash)
              => fres.kind \notin {"path_multiple", "group_multiple"}

\* The selected positions that repeat the path or the group of an earlier
\* selected position
Repeats ==
    {j \in WantedAt : \E i \in WantedAt : i < j /\ (SamePath(i, j) \/ SameGroup(i, j))}

\* C2 as amended: a successful result repeats no path and no group; when
\* selected descriptors share a path or a group, _filter fails with the
\* conflict error of the first selected descriptor that repeats an earlier
\* selected one: the path error naming its path when its path repeats, the
\* group error naming its group otherwise; and without such a pair there is no
\* conflict error.
C2_FirstRepeatDecides ==
    fres.tag # "none" =>
        /\ ResultUnambiguous
        /\ Repeats # {} =>
              LET first == CHOOSE j \in Repeats : \A k \in Repeats : j <= k IN
              IF \E i \in WantedAt : i < first /\ SamePath(i, first)
              THEN fres = FilterError("path_multiple", src[first].path)
              ELSE fres = FilterError("group_multiple", src[first].group.val)
        /\ Repeats = {} => fres.kind \notin {"path_multiple", "group_multiple"}

\* C2's case: selected descriptors share a path and others share a group, and
\* the group is the first to repeat
C2_Witness ==
    /\ fres = FilterError("group_multiple", sGa)
    /\ PathClash
    /\ GroupClash

\* C3: a successful result carries every group name of src exactly once; and
\* when the selected descriptors repeat no path and no group but some group
\* name of src has no selected member, _filter fails with the 'not supported
\* on your platform' error naming the first such group in sorted order.
C3_GroupsComplete ==
    fres.tag # "none" =>
        /\ fres.tag = "ok" =>
              \A g \in GroupNames :
                  Cardinality({j \in 1..Len(fres.files) : fres.files[j].group = Some(g)}) = 1
        /\ (~PathClash /\ ~GroupClash /\ Uncovered # {}) =>
              /\ fres.tag = "error" /\ fres.kind = "unsupported"
              /\ fres.name \in Uncovered
              /\ \A g \in Uncovered : ~StrLess(g, fres.name)

\* C3's case: both groups lack a selected member, gb comes first in src, and
\* the error names ga
C3_Witness ==
    /\ fres = FilterError("unsupported", sGa)
    /\ Uncovered = {sGa, sGb}
    /\ src[1].group = Some(sGb)

\* C9: when _filter succeeds with a result, _filter applied to that result
\* under the same snapshot succeeds and returns it unchanged.
C9_FilterIdempotent ==
    (fres.tag = "ok" /\ fres2.tag # "none") => fres2 = fres

\* C9's case: a second pass over a result of two or more descriptors, with a
\* group, that is shorter than src
C9_Witness ==
    /\ fres.tag = "ok"
    /\ fres2.tag = "ok"
    /\ Len(fres.files) >= 2
    /\ Len(fres.files) < Len(src)
    /\ \E j \in 1..Len(fres.files) : fres.files[j].group.some

---------------------------------------------------------------------------
(* Claims about _download, checked under SpecDownload *)

\* The digest of the bytes the last call downloaded is the descriptor's
DigestMatched == dl.resp.tag = "ok" /\ Sha256Hex(dl.resp.bts) = dl.f.sha256

\* C10: when the SHA-256 of the downloaded bytes is not the descriptor's
\* expected digest, _download fails with the checksum-mismatch error carrying
\* the computed and the expected digest, the extraction strategy is not
\* applied and the disk is left as it was; a file is written only for bytes
\* that passed the digest check.
C10_DigestCheckGates ==
    dl.called =>
        /\ (dl.resp.tag = "ok" /\ ~DigestMatched) =>
              /\ dl.outcome = DownloadOutcome("error", "checksum_mismatch",
                                              Sha256Hex(dl.resp.bts), dl.f.sha256,
                                              FALSE, FALSE)
              /\ fs = dl.before
        /\ (dl.outcome.wrote \/ dl.outcome.extracted \/ fs # dl.before) => DigestMatched

\* C10's case: a mismatching archive download for a path an earlier call
\* wrote, which still holds what that call wrote
C10_Witness ==
    /\ dl.called
    /\ dl.outcome.kind = "checksum_mismatch"
    /\ dl.f.archive.strategy = sTar
    /\ dl.resp.bts = TarBytes
    /\ dl.before[Dest(dl.base, dl.f.path)] = PlainBytes
    /\ fs[Dest(dl.base, dl.f.path)] = PlainBytes

\* A hex digit with its letter case folded, and a digest string folded
FoldHex(c) ==
    CASE c = "A" -> "a" [] c = "B" -> "b" [] c = "C" -> "c"
      [] c = "D" -> "d" [] c = "E" -> "e" [] c = "F" -> "f"
      [] OTHER -> c
FoldDigest(d) == [i \in 1..Len(d) |-> FoldHex(d[i])]

\* C11: the comparison of the computed digest with the descriptor's expected
\* digest ignores the letter case of the hex digits: a call whose download
\* succeeded passes the digest check exactly when the two digests are equal
\* once folded to one case.
C11_DigestCaseInsensitive ==
    (dl.called /\ dl.resp.tag = "ok") =>
        ( (dl.outcome.kind # "checksum_mismatch")
            <=> (FoldDigest(dl.f.sha256) = FoldDigest(Sha256Hex(dl.resp.bts))) )

---------------------------------------------------------------------------
(* Claims about the two commands, checked under SpecCommands *)

\* <dir>/<path> as a text; an absolute path stands for itself
Location(dir, path) ==
    IF path # <<>> /\ path[1] = "/" THEN path ELSE dir \o <<"/">> \o path

DownloadDir == Location(<<"b", "t">>, <<"d", "o", "w", "n", "l", "o", "a", "d">>)
DataFilesDir == Location(DownloadDir, <<"d", "a", "t", "a", "_", "f", "i", "l", "e", "s">>)
ScriptsDir == Location(DownloadDir, <<"s", "c", "r", "i", "p", "t", "s">>)

\* The filtered lists the download command holds, and the descriptors the
\* download step is to fetch, in order, each with the directory it goes to
DataList == IF cmd.parsed_data_files.some THEN cmd.parsed_data_files.val ELSE <<>>
ScriptList == IF cmd.parsed_scripts.some THEN cmd.parsed_scripts.val ELSE <<>>
FetchOrder ==
    [i \in 1..Len(DataList) |-> [dir |-> DataFilesDir, f |-> DataList[i]]]
        \o [i \in 1..Len(ScriptList) |-> [dir |-> ScriptsDir, f |-> ScriptList[i]]]

\* What the descriptor's extraction strategy makes of a payload: the payload
\* itself, or the named member of the archive
Unpacked(f, bts) ==
    IF f.archive.strategy = <<"n", "o", "o", "p">> THEN bts
    ELSE (CHOOSE m \in bts.members : m[1] = f.archive.path)[2]

\* The i-th fetch got a payload whose digest is the descriptor's
Verified(i) ==
    /\ fetched[i].resp.tag = "ok"
    /\ Sha256Hex(fetched[i].resp.bts) = fetched[i].f.sha256

\* The file at dest holds what the i-th fetch's descriptor extracts from the
\* payload the i-th fetch verified
HoldsFetch(dest, i) ==
    /\ fs[dest] # NoBytes
    /\ fs[dest] = Unpacked(fetched[i].f, fetched[i].resp.bts)

\* The i-th copy of the install step reads what the i-th fetch wrote and
\* writes under the install directory dir
CopiesFetch(i, dir) ==
    /\ fetched[i].f = FetchOrder[i].f
    /\ Verified(i)
    /\ copied[i].src = Location(FetchOrder[i].dir, FetchOrder[i].f.path)
    /\ HoldsFetch(copied[i].src, i)
    /\ copied[i].dest = Location(dir, FetchOrder[i].f.path)
    /\ HoldsFetch(copied[i].dest, i)

\* C12: once the download step and then the install step have run to their
\* end, every descriptor of the filtered data-files list has a file at
\* install_data/<path> holding what its extraction strategy makes of its
\* digest-verified payload, every descriptor of the filtered scripts list has
\* such a file at install_scripts/<path> whose mode is the downloaded file's
\* mode with the three execute bits added, and the install step read each
\* file from the download_dir/data_files/<path> or download_dir/scripts/<path>
\* the download step wrote, over the same two lists.
C12_InstalledFilesAreVerifiedPayloads ==
    pc = "installed" =>
        /\ icmd.parsed_data_files = cmd.parsed_data_files
        /\ icmd.parsed_scripts = cmd.parsed_scripts
        /\ Len(fetched) = Len(FetchOrder)
        /\ Len(copied) = Len(FetchOrder)
        /\ \A i \in 1..Len(DataList) : CopiesFetch(i, <<"i", "d">>)
        /\ \A i \in (Len(DataList) + 1)..Len(FetchOrder) :
              /\ CopiesFetch(i, <<"i", "s">>)
              /\ {"S_IXUSR", "S_IXGRP", "S_IXOTH"} \subseteq modes[copied[i].dest]
              /\ modes[copied[i].dest]
                    = modes[copied[i].src] \cup {"S_IXUSR", "S_IXGRP", "S_IXOTH"}

\* C12's case: a data file taken out of a tar archive and a script, both
\* installed, the script readable by its owner alone before the install
C12_Witness ==
    /\ pc = "installed"
    /\ Len(DataList) = 1
    /\ Len(ScriptList) = 1
    /\ DataList[1].archive.strategy = sTar
    /\ fs[Location(<<"i", "d">>, DataList[1].path)] = InnerBytes
    /\ fs[Location(<<"i", "s">>, ScriptList[1].path)] = PlainBytes
    /\ modes[Location(ScriptsDir, ScriptList[1].path)] = {"S_IRUSR", "S_IWUSR"}

\* Parsing and filtering of the text m succeed on this platform
Succeeds(m) == Parse(m).tag = "ok" /\ Filter(Parse(m).files, env).tag = "ok"

\* Something was fetched or written
Activity == fetched # <<>> \/ copied # <<>> \/ \E d \in DOMAIN fs : fs[d] # NoBytes

\* C13: nothing is fetched and nothing is written unless the parsing and the
\* filtering of both manifests have succeeded; when either manifest has a
\* format, marker, conflict or platform error, the download command is
\* aborted at its configuration with that error, and no download is made.
C13_BothManifestsBeforeAnyFetch ==
    /\ (Activity \/ pc \in {"finalized", "downloading", "downloaded"}) =>
          /\ Succeeds(options.download_data_files)
          /\ Succeeds(options.download_scripts)
    /\ (pc # "start" /\ ~( /\ Succeeds(options.download_data_files)
                           /\ Succeeds(options.download_scripts) )) =>
          /\ pc = "aborted"
          /\ raised.tag = "error"
          /\ raised.where \in {"download_data_files", "download_scripts"}
          /\ ~Activity

\* C13's case: the data-files manifest is valid and has a file for this
\* platform, the scripts manifest names a group no file of which is for it
C13_Witness ==
    /\ pc = "aborted"
    /\ Succeeds(options.download_data_files)
    /\ DataList # <<>>
    /\ raised = Error("download_scripts", "unsupported")
    /\ ~Activity

\* The disk after the first n fetches, each writing what it verified
RECURSIVE Replayed(_)
Replayed(n) ==
    IF n = 0 THEN [d \in DOMAIN fs |-> NoBytes]
    ELSE [Replayed(n - 1) EXCEPT
             ![Location(FetchOrder[n].dir, FetchOrder[n].f.path)] =
                 Unpacked(fetched[n].f, fetched[n].resp.bts)]

\* C14: the download step fetches the filtered data files and then the
\* filtered scripts, in order, each at most once; the first fetch that fails
\* (network, checksum or extraction) ends the step with that error, so that
\* a failed fetch is always the last one, nothing of it is written, the
\* install step does not follow, and the disk holds what the fetches before
\* it wrote.
C14_FailFast ==
    /\ Len(fetched) <= Len(FetchOrder)
    /\ \A i \in 1..Len(fetched) :
          /\ fetched[i].f = FetchOrder[i].f
          /\ i < Len(fetched) => (fetched[i].outcome.tag = "ok" /\ Verified(i))
    /\ (fetched # <<>> /\ fetched[Len(fetched)].outcome.tag = "error") =>
          /\ pc = "download_failed"
          /\ fetched[Len(fetched)].outcome.kind \in {"network", "checksum_mismatch", "extract"}
          /\ raised = Error("run", fetched[Len(fetched)].outcome.kind)
          /\ copied = <<>>
          /\ fs = Replayed(Len(fetched) - 1)
    /\ pc = "download_failed" =>
          (fetched # <<>> /\ fetched[Len(fetched)].outcome.tag = "error")

\* C14's case: the first script fails to extract after a data file was
\* written, and the data file is still there
C14_Witness ==
    /\ pc = "download_failed"
    /\ Len(fetched) = 2
    /\ Len(DataList) = 1
    /\ fetched[2].outcome.kind = "extract"
    /\ fs[Location(DataFilesDir, DataList[1].path)] = PlainBytes
    /\ fs[Location(ScriptsDir, ScriptList[1].path)] = NoBytes

=============================================================================
